---- MODULE Spec2Model ----
(***************************************************************************)
(* Model of the mixer command-line front end (mixer/cmd/root.go and the    *)
(* add-rpms command): the external-program registry externalDeps, the      *)
(* per-command guard checkCmdDeps, the global inventory checkAllDeps, the  *)
(* CPU-profile capture bound to the root command's persistent hooks, and   *)
(* the fail / failf exit protocol.                                         *)
(*                                                                         *)
(* Strings the code compares, sorts, measures or pads are sequences of     *)
(* byte values; fixed message texts are kept as literals next to them.     *)
(***************************************************************************)
EXTENDS Integers, Sequences, FiniteSets, TLC

\* Largest total number of names the static initialisers put in externalDeps.
MaxDeclared == 3

\* ------------------------------------------------------------------------
\* The command tree (RootCmd.AddCommand) and the program names.

Root == "mixer"
NoCmd == "nil"
Commands == {"mixer", "init", "add-rpms"}

\* cobra's cmd.Parent(): initCmd and addRPMCmd are added to RootCmd.
Parent(c) == IF c = Root THEN NoCmd ELSE Root

\* "git", "hardlink", "createrepo_c" as byte sequences. Program names are
\* ASCII, so len(dep) and the width fmt pads to count the same units.
Git == <<103, 105, 116>>
Hardlink == <<104, 97, 114, 100, 108, 105, 110, 107>>
CreaterepoC == <<99, 114, 101, 97, 116, 101, 114, 101, 112, 111, 95, 99>>
Names == {Git, Hardlink, CreaterepoC}

\* The name lists an initialiser may assign to a command.
RECURSIVE SeqsUpTo(_, _)
SeqsUpTo(S, n) ==
    IF n = 0 THEN {<<>>}
    ELSE LET shorter == SeqsUpTo(S, n - 1)
         IN  shorter \cup {Append(s, x) : s \in {t \in shorter : Len(t) = n - 1}, x \in S}
NameLists == SeqsUpTo(Names, MaxDeclared) \ {<<>>}

\* The orders in which a range over a Go map may visit the keys in S.
Orders(S) ==
    {o \in [1..Cardinality(S) -> S] : \A i, j \in 1..Cardinality(S) : o[i] = o[j] => i = j}

\* An error value: a fixed message and, for the guard's error, the joined list.
Nil == [msg |-> "nil", list |-> <<>>]
Error(m) == [msg |-> m, list |-> <<>>]

VARIABLES
    pc,           \* where the process is
    externalDeps, \* map[*cobra.Command][]string
    cmd,          \* the command cobra selected
    version,      \* rootCmdFlags.version
    check,        \* rootCmdFlags.check
    cpuProfile,   \* rootCmdFlags.cpuProfile != ""
    config,       \* config != ""
    path,         \* the names exec.LookPath resolves
    profiling,    \* a CPU-profile capture is live
    trace,        \* life-cycle events in the order they happened
    calls,        \* the action body's start and its collaborator calls
    lookups,      \* the names passed to exec.LookPath, in order
    hookErr,      \* what PersistentPreRunE returned
    stdout,       \* lines written to standard output
    stderr,       \* lines written to standard error
    exitStatus    \* the process exit status, -1 while it runs

vars == <<pc, externalDeps, cmd, version, check, cpuProfile, config, path,
          profiling, trace, calls, lookups, hookErr, stdout, stderr, exitStatus>>

invocation == <<cmd, version, check, cpuProfile, config, path>>
output == <<stdout, stderr>>

\* ------------------------------------------------------------------------
\* Strings.

\* Go's < on strings: bytewise lexicographic.
RECURSIVE StrLess(_, _)
StrLess(a, b) ==
    IF b = <<>> THEN FALSE
    ELSE IF a = <<>> THEN TRUE
    ELSE IF a[1] # b[1] THEN a[1] < b[1]
    ELSE StrLess(Tail(a), Tail(b))

RECURSIVE Insert(_, _)
Insert(x, s) ==
    IF s = <<>> THEN <<x>>
    ELSE IF StrLess(s[1], x) THEN <<s[1]>> \o Insert(x, Tail(s))
    ELSE <<x>> \o s

\* Variant: the sort is left out.
SortStrings_Unsorted(s) == s

\* sort.Strings: the list in ascending order.
RECURSIVE SortStrings(_)
SortStrings(s) == IF s = <<>> THEN <<>> ELSE Insert(s[1], SortStrings(Tail(s)))

\* strings.Join(names, ", ").
RECURSIVE Join(_)
Join(names) ==
    IF names = <<>> THEN <<>>
    ELSE IF Len(names) = 1 THEN names[1]
    ELSE names[1] \o <<44, 32>> \o Join(Tail(names))

Spaces(n) == [i \in 1..n |-> 32]

\* Variant: the width is ignored.
PadRight_None(width, s) == s

\* fmt's "%-*s": the string, then spaces up to the width.
PadRight(width, s) == IF Len(s) >= width THEN s ELSE s \o Spaces(width - Len(s))

\* exec.LookPath(dep) returns no error.
LookPath(dep) == dep \in path

\* externalDeps[c]: a missing key reads as the empty list.
DepsOf(c) == IF c \in DOMAIN externalDeps THEN externalDeps[c] ELSE <<>>

\* ------------------------------------------------------------------------
\* checkCmdDeps and checkAllDeps.

\* Variant: the walk stops at the command itself.
CollectDeps_OwnOnly(c) == DepsOf(c)

\* The loop of checkCmdDeps: the lists of the command and of each ancestor.
RECURSIVE CollectDeps(_)
CollectDeps(c) == IF c = NoCmd THEN <<>> ELSE DepsOf(c) \o CollectDeps(Parent(c))

\* The scan over the sorted list: a name equal to its predecessor is skipped,
\* every other name is looked up; acc holds the lookups and the missing names.
RECURSIVE ScanDeps(_, _, _)
ScanDeps(deps, i, acc) ==
    IF i > Len(deps) THEN acc
    ELSE IF i > 1 /\ deps[i] = deps[i - 1] THEN ScanDeps(deps, i + 1, acc)
    ELSE ScanDeps(deps, i + 1,
                  [looked  |-> Append(acc.looked, deps[i]),
                   missing |-> IF LookPath(deps[i]) THEN acc.missing
                               ELSE Append(acc.missing, deps[i])])

MissingError(missing) ==
    [msg |-> "missing following external programs: ", list |-> Join(missing)]

\* Variant: the error is returned only for more than one missing name.
checkCmdDeps_OffByOne(c) ==
    LET deps == SortStrings(CollectDeps(c))
        r    == ScanDeps(deps, 1, [looked |-> <<>>, missing |-> <<>>])
    IN  [looked |-> r.looked,
         err    |-> IF Len(r.missing) > 1 THEN MissingError(r.missing) ELSE Nil]

\* checkCmdDeps(cmd): the names it looked up and the error it returns.
checkCmdDeps(c) ==
    LET deps == SortStrings(CollectDeps(c))
        r    == ScanDeps(deps, 1, [looked |-> <<>>, missing |-> <<>>])
    IN  [looked |-> r.looked,
         err    |-> IF Len(r.missing) > 0 THEN MissingError(r.missing) ELSE Nil]

\* The first loop of checkAllDeps, visiting the map's keys in the given order.
RECURSIVE CollectAll(_)
CollectAll(order) ==
    IF order = <<>> THEN <<>> ELSE externalDeps[order[1]] \o CollectAll(Tail(order))

\* The second loop: the length of the longest name.
RECURSIVE MaxLen(_)
MaxLen(deps) ==
    IF deps = <<>> THEN 0
    ELSE LET m == MaxLen(Tail(deps)) IN IF Len(deps[1]) > m THEN Len(deps[1]) ELSE m

Line(text) == [text |-> text, chars |-> <<>>]

\* Printf("  %-*s not found\n", max, dep) and Printf("  %-*s ok\n", max, dep).
Row(max, dep, found) ==
    [text  |-> "",
     chars |-> <<32, 32>> \o PadRight(max, dep) \o
               (IF found THEN <<32, 111, 107>>
                ELSE <<32, 110, 111, 116, 32, 102, 111, 117, 110, 100>>)]

\* Variant: ok is overwritten by every lookup instead of only cleared.
RECURSIVE ScanAll_LastWins(_, _, _, _)
ScanAll_LastWins(deps, max, i, acc) ==
    IF i > Len(deps) THEN acc
    ELSE IF i > 1 /\ deps[i] = deps[i - 1] THEN ScanAll_LastWins(deps, max, i + 1, acc)
    ELSE ScanAll_LastWins(deps, max, i + 1,
                 [looked |-> Append(acc.looked, deps[i]),
                  rows   |-> Append(acc.rows, Row(max, deps[i], LookPath(deps[i]))),
                  ok     |-> LookPath(deps[i])])

\* The third loop: one row per name that differs from its predecessor.
RECURSIVE ScanAll(_, _, _, _)
ScanAll(deps, max, i, acc) ==
    IF i > Len(deps) THEN acc
    ELSE IF i > 1 /\ deps[i] = deps[i - 1] THEN ScanAll(deps, max, i + 1, acc)
    ELSE ScanAll(deps, max, i + 1,
                 [looked |-> Append(acc.looked, deps[i]),
                  rows   |-> Append(acc.rows, Row(max, deps[i], LookPath(deps[i]))),
                  ok     |-> acc.ok /\ LookPath(deps[i])])

\* checkAllDeps(): the lines it prints, the names it looked up and its result.
checkAllDeps(order) ==
    LET allDeps == SortStrings(CollectAll(order))
        max     == MaxLen(allDeps)
        r       == ScanAll(allDeps, max, 1, [looked |-> <<>>, rows |-> <<>>, ok |-> TRUE])
    IN  [looked |-> r.looked,
         lines  |-> <<Line("Programs used by Mixer commands:")>> \o r.rows,
         ok     |-> r.ok]

\* ------------------------------------------------------------------------
\* The exit protocol.

\* os.Exit(status) after the given life-cycle events.
Exit(events, status) ==
    /\ trace' = trace \o events \o <<"os.Exit">>
    /\ exitStatus' = status
    /\ pc' = "exited"

\* Variant: fail prints and returns to its caller, which runs to its end.
fail_Returns(err) ==
    /\ profiling' = IF cpuProfile THEN FALSE ELSE profiling
    /\ stderr' = Append(stderr, [text |-> "ERROR: ", err |-> err])
    /\ trace' = trace \o (IF cpuProfile THEN <<"StopCPUProfile">> ELSE <<>>)
    /\ exitStatus' = exitStatus
    /\ pc' = "postrun"

\* fail(err): stop the capture when a destination is configured, one line, exit 1.
fail(err) ==
    /\ profiling' = IF cpuProfile THEN FALSE ELSE profiling
    /\ stderr' = Append(stderr, [text |-> "ERROR: ", err |-> err])
    /\ Exit(IF cpuProfile THEN <<"StopCPUProfile">> ELSE <<>>, 1)

\* Variant: failf stops the capture the way fail does.
failf_StopsCapture(format) ==
    /\ profiling' = IF cpuProfile THEN FALSE ELSE profiling
    /\ stderr' = Append(stderr, [text |-> "ERROR: ", err |-> Error(format)])
    /\ Exit(IF cpuProfile THEN <<"StopCPUProfile">> ELSE <<>>, 1)

\* failf(format, a...): one line, exit 1; the capture is left as it is.
failf(format) ==
    /\ profiling' = profiling
    /\ stderr' = Append(stderr, [text |-> "ERROR: ", err |-> Error(format)])
    /\ Exit(<<>>, 1)

\* ------------------------------------------------------------------------
\* Static initialisation: the init functions fill externalDeps, each with one
\* assignment of a list to its own command, so that no command is assigned
\* twice. Those of the repository assign <<"git">> to initCmd and
\* <<"createrepo_c", "hardlink">> to addRPMCmd; here the list an initialiser
\* assigns is any list of names, and the root may have an initialiser too.

RECURSIVE Total(_, _)
Total(reg, keys) ==
    IF keys = {} THEN 0
    ELSE LET k == CHOOSE x \in keys : TRUE IN Len(reg[k]) + Total(reg, keys \ {k})

\* externalDeps[c] = names
Assign(reg, c, names) ==
    [k \in DOMAIN reg \cup {c} |-> IF k = c THEN names ELSE reg[k]]

Declare(c, names) ==
    /\ pc = "static_init"
    /\ c \notin DOMAIN externalDeps
    /\ LET reg == Assign(externalDeps, c, names)
       IN  /\ Total(reg, DOMAIN reg) <= MaxDeclared
           /\ externalDeps' = reg
    /\ UNCHANGED <<pc, invocation, profiling, trace, calls, lookups, hookErr,
                   output, exitStatus>>

\* ------------------------------------------------------------------------
\* Execute: cobra parses the arguments, selects the command and runs the
\* root's persistent pre-run hook, the action and the persistent post-run hook.

\* The initialisers are done and main.main calls Execute.
Main ==
    /\ pc = "static_init"
    /\ pc' = "main"
    /\ UNCHANGED <<externalDeps, invocation, profiling, trace, calls, lookups,
                   hookErr, output, exitStatus>>

\* --version and --check are flags of the root command only.
Execute ==
    /\ pc = "main"
    /\ cmd' \in Commands
    /\ version' \in (IF cmd' = Root THEN BOOLEAN ELSE {FALSE})
    /\ check' \in (IF cmd' = Root THEN BOOLEAN ELSE {FALSE})
    /\ cpuProfile' \in BOOLEAN
    /\ config' \in (IF cmd' = Root THEN {FALSE} ELSE BOOLEAN)
    /\ path' \in SUBSET Names
    /\ pc' = "prerun"
    /\ UNCHANGED <<externalDeps, profiling, trace, calls, lookups, hookErr,
                   output, exitStatus>>

\* Variant: a failed set-up is reported and the hook goes on.
PreRunProfile_GoesOn ==
    /\ pc = "prerun"
    /\ IF cpuProfile
       THEN \/ /\ stderr' = Append(stderr, [text |-> "ERROR: ",
                      err |-> Error("couldn't create file for CPU profile: %s")])
               /\ pc' = "bypass"
               /\ UNCHANGED <<profiling, trace, stdout, exitStatus>>
            \/ /\ profiling' = TRUE
               /\ trace' = Append(trace, "StartCPUProfile")
               /\ pc' = "bypass"
               /\ UNCHANGED <<output, exitStatus>>
       ELSE /\ pc' = "bypass"
            /\ UNCHANGED <<profiling, trace, output, exitStatus>>
    /\ UNCHANGED <<externalDeps, invocation, calls, lookups, hookErr>>

\* PersistentPreRunE, first part: start the capture when a destination is set.
PreRunProfile ==
    /\ pc = "prerun"
    /\ IF cpuProfile
       THEN \/ /\ failf("couldn't create file for CPU profile: %s")
               /\ UNCHANGED stdout
            \/ /\ failf("couldn't start profiling: %s")
               /\ UNCHANGED stdout
            \/ /\ profiling' = TRUE
               /\ trace' = Append(trace, "StartCPUProfile")
               /\ pc' = "bypass"
               /\ UNCHANGED <<output, exitStatus>>
       ELSE /\ pc' = "bypass"
            /\ UNCHANGED <<profiling, trace, output, exitStatus>>
    /\ UNCHANGED <<externalDeps, invocation, calls, lookups, hookErr>>

\* Variant: the hook goes to the guard without looking at the flags.
PreRunBypass_NoBypass ==
    /\ pc = "bypass"
    /\ pc' = "guard"
    /\ UNCHANGED <<trace, stdout, lookups, exitStatus>>
    /\ UNCHANGED <<externalDeps, invocation, profiling, calls, hookErr, stderr>>

\* PersistentPreRunE, second part: --version and --check on the root command.
PreRunBypass ==
    /\ pc = "bypass"
    /\ IF Parent(cmd) = NoCmd /\ version
       THEN /\ stdout' = Append(stdout, Line("Mixer builder.Version"))
            /\ Exit(<<"version">>, 0)
            /\ UNCHANGED lookups
       ELSE IF Parent(cmd) = NoCmd /\ check
       THEN \E order \in Orders(DOMAIN externalDeps) :
              LET r == checkAllDeps(order)
              IN  /\ stdout' = stdout \o r.lines
                  /\ lookups' = r.looked
                  /\ Exit(<<"checkAllDeps">>, IF r.ok THEN 0 ELSE 1)
       ELSE /\ pc' = "guard"
            /\ UNCHANGED <<trace, stdout, lookups, exitStatus>>
    /\ UNCHANGED <<externalDeps, invocation, profiling, calls, hookErr, stderr>>

\* Variant: the action is run whatever checkCmdDeps returned.
PreRunGuard_IgnoresError ==
    /\ pc = "guard"
    /\ LET r == checkCmdDeps(cmd)
       IN  /\ lookups' = r.looked
           /\ hookErr' = r.err
           /\ trace' = Append(trace, "checkCmdDeps")
           /\ pc' = "run"
    /\ UNCHANGED <<externalDeps, invocation, profiling, calls, output, exitStatus>>

\* Variant: the command's own list is sorted where it lies in the map.
PreRunGuard_SortsInPlace ==
    /\ pc = "guard"
    /\ LET r == checkCmdDeps(cmd)
       IN  /\ lookups' = r.looked
           /\ hookErr' = r.err
           /\ trace' = Append(trace, "checkCmdDeps")
           /\ pc' = IF r.err = Nil THEN "run" ELSE "return"
    /\ externalDeps' = [k \in DOMAIN externalDeps |->
                           IF k = cmd THEN SortStrings(externalDeps[k])
                           ELSE externalDeps[k]]
    /\ UNCHANGED <<invocation, profiling, calls, output, exitStatus>>

\* PersistentPreRunE, last line: return checkCmdDeps(cmd). On an error cobra
\* skips the action and the post-run hook and RootCmd.Execute returns it.
PreRunGuard ==
    /\ pc = "guard"
    /\ LET r == checkCmdDeps(cmd)
       IN  /\ lookups' = r.looked
           /\ hookErr' = r.err
           /\ trace' = Append(trace, "checkCmdDeps")
           /\ pc' = IF r.err = Nil THEN "run" ELSE "return"
    /\ UNCHANGED <<externalDeps, invocation, profiling, calls, output, exitStatus>>

\* cmd.UsageString() as cobra's Print writes it: an entry of standard error
\* that carries no error.
Usage == [text |-> "cmd.UsageString()", err |-> Nil]

\* RootCmd.Run: cmd.Print(cmd.UsageString()). No output is set on the
\* command, so cobra's Print writes to standard error.
RootRun ==
    /\ pc = "run"
    /\ cmd = Root
    /\ calls' = <<"RootCmd.Run">>
    /\ stderr' = Append(stderr, Usage)
    /\ pc' = "postrun"
    /\ UNCHANGED <<externalDeps, invocation, profiling, trace, lookups, hookErr,
                   stdout, exitStatus>>

\* Variant: the default config is created whether or not a path was given.
InitSteps_AlwaysCreates ==
    <<"CreateDefaultConfig", "LoadBuilderConf", "ReadBuilderConf", "InitMix">>

\* The collaborator calls of initCmd.Run, in program order.
InitSteps ==
    (IF config THEN <<>> ELSE <<"CreateDefaultConfig">>)
        \o <<"LoadBuilderConf", "ReadBuilderConf", "InitMix">>

\* initCmd.Run: each call's error goes to fail; n is the call that fails, 0 for none.
InitRun ==
    /\ pc = "run"
    /\ cmd = "init"
    /\ \E n \in 0..Len(InitSteps) :
         IF n = 0
         THEN /\ calls' = <<"initCmd.Run">> \o InitSteps
              /\ pc' = "postrun"
              /\ UNCHANGED <<profiling, trace, stderr, exitStatus>>
         ELSE /\ calls' = <<"initCmd.Run">> \o SubSeq(InitSteps, 1, n)
              /\ fail(Error(InitSteps[n]))
    /\ UNCHANGED <<externalDeps, invocation, lookups, hookErr, stdout>>

\* Variant: RPMDIR is looked at only after the RPMs were added.
RunAddRPM_ChecksDirLate ==
    /\ pc = "run"
    /\ cmd = "add-rpms"
    /\ \/ /\ calls' = <<"runAddRPM", "NewFromConfig">>
          /\ fail(Error("NewFromConfig"))
       \/ /\ calls' = <<"runAddRPM", "NewFromConfig", "ReadDir">>
          /\ failf("cannot read RPMDIR: %s")
       \/ /\ calls' = <<"runAddRPM", "NewFromConfig", "ReadDir", "AddRPMList">>
          /\ fail(Error("AddRPMList"))
       \/ /\ calls' = <<"runAddRPM", "NewFromConfig", "ReadDir", "AddRPMList">>
          /\ failf("RPMDIR not set in configuration")
       \/ /\ calls' = <<"runAddRPM", "NewFromConfig", "ReadDir", "AddRPMList">>
          /\ pc' = "postrun"
          /\ UNCHANGED <<profiling, trace, stderr, exitStatus>>
    /\ UNCHANGED <<externalDeps, invocation, lookups, hookErr, stdout>>

\* runAddRPM.
RunAddRPM ==
    /\ pc = "run"
    /\ cmd = "add-rpms"
    /\ \/ /\ calls' = <<"runAddRPM", "NewFromConfig">>
          /\ fail(Error("NewFromConfig"))
       \/ /\ calls' = <<"runAddRPM", "NewFromConfig">>
          /\ failf("RPMDIR not set in configuration")
       \/ /\ calls' = <<"runAddRPM", "NewFromConfig", "ReadDir">>
          /\ failf("cannot read RPMDIR: %s")
       \/ /\ calls' = <<"runAddRPM", "NewFromConfig", "ReadDir", "AddRPMList">>
          /\ fail(Error("AddRPMList"))
       \/ /\ calls' = <<"runAddRPM", "NewFromConfig", "ReadDir", "AddRPMList">>
          /\ pc' = "postrun"
          /\ UNCHANGED <<profiling, trace, stderr, exitStatus>>
    /\ UNCHANGED <<externalDeps, invocation, lookups, hookErr, stdout>>

\* Variant: the hook leaves the capture running.
PersistentPostRun_NoStop ==
    /\ pc = "postrun"
    /\ pc' = "return"
    /\ UNCHANGED <<externalDeps, invocation, profiling, trace, calls,
                   lookups, hookErr, output, exitStatus>>

\* PersistentPostRun: stop the capture when a destination is configured.
PersistentPostRun ==
    /\ pc = "postrun"
    /\ profiling' = IF cpuProfile THEN FALSE ELSE profiling
    /\ trace' = IF cpuProfile THEN Append(trace, "StopCPUProfile") ELSE trace
    /\ pc' = "return"
    /\ UNCHANGED <<externalDeps, invocation, calls, lookups, hookErr, output,
                   exitStatus>>

\* Execute, after RootCmd.Execute returned: os.Exit(1) on an error, else main
\* returns. Before it returns an error cobra has written the "Error: " line
\* and, SilenceErrors and SilenceUsage not being set, the usage of the
\* command to standard error.
ExecuteReturn ==
    /\ pc = "return"
    /\ IF hookErr # Nil
       THEN /\ stderr' = stderr \o <<[text |-> "Error: ", err |-> hookErr], Usage>>
            /\ Exit(<<>>, 1)
       ELSE /\ exitStatus' = 0
            /\ pc' = "exited"
            /\ UNCHANGED <<trace, stderr>>
    /\ UNCHANGED <<externalDeps, invocation, profiling, calls, lookups, hookErr,
                   stdout>>

\* ------------------------------------------------------------------------

Init ==
    /\ pc = "static_init"
    /\ externalDeps = [k \in {} |-> <<>>]
    /\ cmd = NoCmd
    /\ version = FALSE
    /\ check = FALSE
    /\ cpuProfile = FALSE
    /\ config = FALSE
    /\ path = {}
    /\ profiling = FALSE
    /\ trace = <<>>
    /\ calls = <<>>
    /\ lookups = <<>>
    /\ hookErr = Nil
    /\ stdout = <<>>
    /\ stderr = <<>>
    /\ exitStatus = -1

Next ==
    \/ \E c \in Commands, names \in NameLists : Declare(c, names)
    \/ Main
    \/ Execute
    \/ PreRunProfile
    \/ PreRunBypass
    \/ PreRunGuard
    \/ RootRun
    \/ InitRun
    \/ RunAddRPM
    \/ PersistentPostRun
    \/ ExecuteReturn

Spec == Init /\ [][Next]_vars

\* ------------------------------------------------------------------------
\* Vocabulary of the properties.

Range(s) == {s[i] : i \in DOMAIN s}
Has(e) == \E i \in DOMAIN trace : trace[i] = e
Count(e) == Cardinality({i \in DOMAIN trace : trace[i] = e})
Exited == pc = "exited"

\* The names declared on a command or on one of its ancestors, as a set.
ChainNames(c) == UNION {Range(DepsOf(a)) : a \in ({c, Parent(c)} \cap Commands)}
\* The names declared on any command, as a set.
AllNames == UNION {Range(externalDeps[c]) : c \in DOMAIN externalDeps}

\* The one strictly ascending arrangement of a set of names.
Ascending(s) == \A i \in 1..(Len(s) - 1) : StrLess(s[i], s[i + 1])
SortedOf(S) == CHOOSE o \in Orders(S) : Ascending(o)

\* A list read back from its ", "-joined text.
RECURSIVE SplitFrom(_, _, _, _)
SplitFrom(chars, i, cur, acc) ==
    IF i > Len(chars) THEN Append(acc, cur)
    ELSE IF chars[i] = 44 /\ i < Len(chars) /\ chars[i + 1] = 32
         THEN SplitFrom(chars, i + 2, <<>>, Append(acc, cur))
    ELSE SplitFrom(chars, i + 1, Append(cur, chars[i]), acc)
Split(chars) == SplitFrom(chars, 1, <<>>, <<>>)

GuardRan == Has("checkCmdDeps")
ActionStarted == calls # <<>>
\* The pre-run hook got past its profiling set-up.
ProfileSetUp == ~cpuProfile \/ Has("StartCPUProfile")
Bypass == cmd = Root /\ (version \/ check)

\* ------------------------------------------------------------------------
\* C1: the guard runs before the action; a missing name of the chain ends the
\* process with status 1 and no action; with nothing missing the action runs.

\* As first stated, over every invocation: when the process has ended, the
\* action ran if the chain has no unresolved name, and otherwise the status is
\* 1 and the action never started.
C1_AsStated ==
    Exited =>
        /\ ActionStarted => GuardRan
        /\ IF ChainNames(cmd) \subseteq path
           THEN ActionStarted
           ELSE exitStatus = 1 /\ ~ActionStarted

\* C1, amended: an action starts only after the guard ran and returned no
\* error; once the guard has run with an unresolved name in the chain the
\* action never starts and the process ends with status 1; once it has run
\* with every name of the chain resolved, the process does not end before the
\* action has run. The guard is not reached when the profiling set-up fails
\* or the root is invoked with --version or --check.
C1_GuardBeforeAction ==
    /\ pc = "run" => GuardRan /\ hookErr = Nil /\ ~ActionStarted
    /\ ActionStarted => GuardRan /\ hookErr = Nil /\ ChainNames(cmd) \subseteq path
    /\ GuardRan /\ ~(ChainNames(cmd) \subseteq path) =>
           /\ ~ActionStarted
           /\ pc \in {"return", "exited"}
           /\ Exited => exitStatus = 1
    /\ GuardRan /\ ChainNames(cmd) \subseteq path /\ Exited => ActionStarted
    /\ GuardRan <=> pc \notin {"static_init", "main", "prerun", "bypass", "guard"}
                    /\ ProfileSetUp /\ ~Bypass

\* A command aborted for a name its parent declares.
C1_Witness ==
    /\ Exited /\ exitStatus = 1 /\ GuardRan /\ ~ActionStarted
    /\ cmd = "init"
    /\ Range(DepsOf(Root)) \ path # {}
    /\ Range(DepsOf("init")) \subseteq path

\* ------------------------------------------------------------------------
\* C2: the names checkCmdDeps looks up are the union of the lists of the
\* command and of its ancestors, each name once, in an order fixed by the set
\* alone (ascending), whatever the order of registration.
C2_ChainUnion ==
    GuardRan =>
        /\ Range(lookups) = ChainNames(cmd)
        /\ Len(lookups) = Cardinality(ChainNames(cmd))
        /\ lookups = SortedOf(ChainNames(cmd))

\* A name repeated across the chain, registered out of order.
C2_Witness ==
    /\ GuardRan /\ cmd # Root
    /\ Len(lookups) = 2
    /\ Len(CollectDeps(cmd)) = 3
    /\ DepsOf(Root) # <<>>
    /\ ~Ascending(DepsOf(cmd))

\* ------------------------------------------------------------------------
\* C3: checkCmdDeps returns no error exactly when every name of the chain
\* resolves; otherwise the error lists exactly the unresolved names of the
\* chain, each once, ascending, joined by ", ".
C3_MissingList ==
    GuardRan =>
        /\ hookErr = Nil <=> ChainNames(cmd) \subseteq path
        /\ hookErr # Nil =>
              /\ hookErr.msg = "missing following external programs: "
              /\ Split(hookErr.list) = SortedOf(ChainNames(cmd) \ path)

\* Two names missing, one resolved, declared in descending order.
C3_Witness ==
    /\ GuardRan /\ hookErr # Nil
    /\ Cardinality(ChainNames(cmd) \ path) = 2
    /\ ChainNames(cmd) \cap path # {}
    /\ ~Ascending(CollectDeps(cmd))

\* ------------------------------------------------------------------------
\* C4: when a capture was started and checkCmdDeps then reports a missing
\* name, the capture is stopped before the process exits with status 1.
C4_StoppedOnAbort ==
    Exited /\ Has("StartCPUProfile") /\ GuardRan /\ hookErr # Nil =>
        /\ exitStatus = 1
        /\ ~profiling
        /\ Has("StopCPUProfile")

\* ------------------------------------------------------------------------
\* C5: fail and failf both stop a live capture before they end the process:
\* no process that wrote an "ERROR: " line ends with the capture live.
C5_FailStopsCapture ==
    Exited /\ Has("StartCPUProfile")
           /\ (\E i \in DOMAIN stderr : stderr[i].text = "ERROR: ") =>
        /\ ~profiling
        /\ \E i, j \in DOMAIN trace :
              i < j /\ trace[i] = "StopCPUProfile" /\ trace[j] = "os.Exit"

\* ------------------------------------------------------------------------
\* C6: on every path by which the process ends after a capture was started,
\* --version and --check included, the capture was stopped exactly once.
C6_StoppedOnEveryExit ==
    Exited /\ Has("StartCPUProfile") =>
        /\ Count("StopCPUProfile") = 1
        /\ ~profiling

\* ------------------------------------------------------------------------
\* C7: at most one capture is live; StopCPUProfile is called at most once, and
\* only after a capture was started and not yet stopped.
C7_NoDoubleRelease ==
    /\ Count("StartCPUProfile") <= 1
    /\ Count("StopCPUProfile") <= 1
    /\ \A j \in DOMAIN trace :
          trace[j] = "StopCPUProfile" =>
              \E i \in 1..(j - 1) : trace[i] = "StartCPUProfile"
    /\ profiling <=> Count("StartCPUProfile") = 1 /\ Count("StopCPUProfile") = 0
    /\ Has("StartCPUProfile") => cpuProfile

\* A capture stopped by fail inside an action.
C7_Witness ==
    /\ Exited /\ exitStatus = 1 /\ ActionStarted
    /\ Count("StartCPUProfile") = 1
    /\ Count("StopCPUProfile") = 1
    /\ \E i \in DOMAIN stderr : stderr[i].text = "ERROR: "

\* ------------------------------------------------------------------------
\* C8: --version and --check on the root run their query and never the guard.

\* As first stated, over every invocation of the root with --version or
\* --check: the query ran and the guard did not.
C8_AsStated ==
    Exited /\ Bypass =>
        /\ Has("version") \/ Has("checkAllDeps")
        /\ ~GuardRan

\* C8, amended: when the root is invoked with --version or --check, the guard
\* is never applied and no action starts, whatever the search path holds; and
\* unless the profiling set-up failed first, the process ends only after the
\* query ran: --version prints the version and exits 0, otherwise --check runs
\* checkAllDeps and exits.
C8_BypassRuns ==
    Bypass =>
        /\ ~GuardRan
        /\ ~ActionStarted
        /\ Exited /\ ProfileSetUp =>
              IF version
              THEN /\ exitStatus = 0
                   /\ stdout = <<Line("Mixer builder.Version")>>
                   /\ ~Has("checkAllDeps")
              ELSE /\ Has("checkAllDeps")
                   /\ exitStatus \in {0, 1}
        /\ Exited /\ ~ProfileSetUp => exitStatus = 1 /\ stdout = <<>>

\* The version query with every declared program missing.
C8_Witness ==
    /\ Exited /\ cmd = Root /\ version /\ check
    /\ exitStatus = 0
    /\ Cardinality(AllNames) = 3
    /\ DepsOf(Root) # <<>>
    /\ path = {}

\* ------------------------------------------------------------------------
\* C9: in global check mode the exit status is 0 exactly when every name
\* declared by any command resolves, and 1 otherwise.
C9_CheckStatus ==
    Has("checkAllDeps") =>
        /\ Exited
        /\ exitStatus = IF AllNames \subseteq path THEN 0 ELSE 1

\* A failed check whose last row, in sorted order, resolves.
C9_Witness ==
    /\ Has("checkAllDeps") /\ exitStatus = 1
    /\ Cardinality(AllNames) >= 2
    /\ SortedOf(AllNames)[Cardinality(AllNames)] \in path

\* ------------------------------------------------------------------------
\* C10: the table of checkAllDeps: after the heading, one row per distinct
\* declared name, ascending whatever the map's iteration order, "ok" for a
\* name that resolves and "not found" otherwise, the name padded with spaces
\* to the length of the longest declared name.
Widest(S) == IF S = {} THEN 0 ELSE CHOOSE w \in {Len(n) : n \in S} : \A n \in S : Len(n) <= w
Marker(name) ==
    IF name \in path THEN <<32, 111, 107>>
    ELSE <<32, 110, 111, 116, 32, 102, 111, 117, 110, 100>>
IsRowOf(row, name) ==
    LET c == row.chars
        w == Widest(AllNames)
    IN  /\ row.text = ""
        /\ Len(c) = 2 + w + Len(Marker(name))
        /\ c[1] = 32 /\ c[2] = 32
        /\ SubSeq(c, 3, 2 + Len(name)) = name
        /\ \A i \in (3 + Len(name))..(2 + w) : c[i] = 32
        /\ SubSeq(c, 3 + w, Len(c)) = Marker(name)

C10_Table ==
    Has("checkAllDeps") =>
        /\ Len(stdout) = 1 + Cardinality(AllNames)
        /\ stdout[1] = Line("Programs used by Mixer commands:")
        /\ \A i \in 1..Cardinality(AllNames) :
              IsRowOf(stdout[i + 1], SortedOf(AllNames)[i])

\* Three names of different lengths on two commands, one of them resolved.
C10_Witness ==
    /\ Has("checkAllDeps") /\ exitStatus = 1
    /\ AllNames = Names
    /\ Cardinality(DOMAIN externalDeps) = 2
    /\ path = {Git}

\* ------------------------------------------------------------------------
\* C11: a call of fail or failf writes exactly one "ERROR: " line and ends the
\* process with status 1: the line is the only one on standard error, os.Exit
\* is the last event, and the calling action or hook made no later step.
Diagnostics == {i \in DOMAIN stderr : stderr[i].text = "ERROR: "}
\* The last call an action made before it gave this message to fail or failf.
LastCallBefore(msg) ==
    CASE msg = "RPMDIR not set in configuration" -> "NewFromConfig"
      [] msg = "cannot read RPMDIR: %s" -> "ReadDir"
      [] OTHER -> msg

C11_OneLineThenExit ==
    Diagnostics # {} =>
        /\ Exited /\ exitStatus = 1
        /\ Len(stderr) = 1
        /\ trace[Len(trace)] = "os.Exit" /\ Count("os.Exit") = 1
        /\ IF ActionStarted
           THEN calls[Len(calls)] = LastCallBefore(stderr[1].err.msg)
           ELSE /\ trace = <<"os.Exit">>
                /\ stdout = <<>>
                /\ stderr[1].err.msg \in {"couldn't create file for CPU profile: %s",
                                          "couldn't start profiling: %s"}

\* fail called by the init action after its second collaborator call.
C11_Witness ==
    /\ Exited /\ cmd = "init" /\ config
    /\ stderr = <<[text |-> "ERROR: ", err |-> Error("ReadBuilderConf")]>>
    /\ calls = <<"initCmd.Run", "LoadBuilderConf", "ReadBuilderConf">>

\* ------------------------------------------------------------------------
\* C12: the init action calls CreateDefaultConfig (only without a config
\* path), LoadBuilderConf, ReadBuilderConf, InitMix in this order, each at
\* most once; the first error goes unchanged to fail, the process ends with
\* status 1, and no later call and no repeated call is made.
InitOrder(withConfig) ==
    IF withConfig THEN <<"LoadBuilderConf", "ReadBuilderConf", "InitMix">>
    ELSE <<"CreateDefaultConfig", "LoadBuilderConf", "ReadBuilderConf", "InitMix">>

C12_InitCallOrder ==
    cmd = "init" /\ ActionStarted =>
        LET made == Tail(calls)
            full == InitOrder(config)
        IN  /\ calls[1] = "initCmd.Run"
            /\ Len(made) \in 1..Len(full)
            /\ made = SubSeq(full, 1, Len(made))
            /\ IF stderr = <<>>
               THEN /\ made = full
                    /\ pc \in {"postrun", "return", "exited"}
                    /\ Exited => exitStatus = 0
               ELSE /\ stderr = <<[text |-> "ERROR: ", err |-> Error(made[Len(made)])]>>
                    /\ Exited /\ exitStatus = 1

\* LoadBuilderConf fails after the default config was created.
C12_Witness ==
    /\ Exited /\ exitStatus = 1 /\ cmd = "init" /\ ~config
    /\ calls = <<"initCmd.Run", "CreateDefaultConfig", "LoadBuilderConf">>
    /\ stderr[1].err = Error("LoadBuilderConf")

\* ------------------------------------------------------------------------
\* C13: once static initialisation is over the registry never changes:
\* neither main's start nor checkCmdDeps nor checkAllDeps, with their sorting
\* and duplicate skipping, alters the map or the content or order of a list.
C13_RegistryFrozen ==
    [][pc # "static_init" \/ pc' # "static_init" => externalDeps' = externalDeps]_vars

\* checkCmdDeps has run over a chain holding an unsorted list with a repeated
\* name, and the list lies in the map as it was declared.
C13_Witness ==
    /\ GuardRan /\ cmd = "init"
    /\ DepsOf("init") = <<Hardlink, Git, Hardlink>>
    /\ lookups = <<Git, Hardlink>>

\* ------------------------------------------------------------------------
\* C15: the capture and the hooks of a run whose action returns normally.

\* As first stated, for the start: once the pre-run hook is past its profiling
\* set-up, a capture was started exactly when a destination is configured.
C15_AsStated ==
    pc \notin {"static_init", "main", "prerun"} =>
        (Has("StartCPUProfile") <=> cpuProfile)

\* C15, amended: a capture is started only when a destination is configured,
\* and then unless the file cannot be created or profiling cannot be started
\* (the hook then ends the process with status 1); the start is the first
\* event, before the guard and before any action; when the action returns
\* normally the post-run hook, after the action, stops the capture exactly
\* once and the process ends with status 0.
C15_CaptureLifeCycle ==
    /\ Has("StartCPUProfile") => cpuProfile /\ trace[1] = "StartCPUProfile"
    /\ cpuProfile /\ pc \notin {"static_init", "main", "prerun"} =>
          \/ Has("StartCPUProfile")
          \/ Exited /\ exitStatus = 1 /\ trace = <<"os.Exit">> /\ Diagnostics = {1}
    /\ pc \in {"bypass", "guard"} => ~GuardRan /\ ~ActionStarted
    /\ pc = "postrun" =>
          /\ ActionStarted /\ Diagnostics = {}
          /\ ~Has("StopCPUProfile")
          /\ profiling <=> cpuProfile
    /\ ActionStarted /\ Diagnostics = {} /\ pc \in {"return", "exited"} =>
          /\ ~profiling
          /\ Count("StopCPUProfile") = (IF cpuProfile THEN 1 ELSE 0)
          /\ cpuProfile => trace = <<"StartCPUProfile", "checkCmdDeps", "StopCPUProfile">>
          /\ Exited => exitStatus = 0

\* A profiled add-rpms run that ended normally.
C15_Witness ==
    /\ Exited /\ exitStatus = 0 /\ cpuProfile /\ cmd = "add-rpms"
    /\ calls = <<"runAddRPM", "NewFromConfig", "ReadDir", "AddRPMList">>
    /\ trace = <<"StartCPUProfile", "checkCmdDeps", "StopCPUProfile">>

\* ------------------------------------------------------------------------
\* C16: in one environment checkAllDeps returns true exactly when
\* checkCmdDeps returns no error for every command that has an entry in
\* externalDeps, whatever order the map is visited in. Both are evaluated
\* where a run begins, for every registry and search path, and where it ends.
C16_GlobalAgreesWithGuards ==
    pc \in {"prerun", "exited"} =>
        \A order \in Orders(DOMAIN externalDeps) :
            checkAllDeps(order).ok <=>
                \A c \in DOMAIN externalDeps : checkCmdDeps(c).err = Nil

\* A failed global check: one registered command would be aborted by its
\* guard for a single missing name, another would pass.
C16_Witness ==
    /\ Has("checkAllDeps") /\ exitStatus = 1
    /\ Cardinality(AllNames \ path) = 1
    /\ \E c \in DOMAIN externalDeps : checkCmdDeps(c).err # Nil
    /\ \E c \in DOMAIN externalDeps : checkCmdDeps(c).err = Nil

\* ------------------------------------------------------------------------
\* C17: the add-rpms action calls AddRPMList at most once, and only after
\* NewFromConfig succeeded, RPMDIR was found set and the directory was read;
\* when one of these three fails the process ends with status 1 and
\* AddRPMList is never called.
EarlyFailures ==
    {"NewFromConfig", "RPMDIR not set in configuration", "cannot read RPMDIR: %s"}

C17_AddRPMListLast ==
    cmd = "add-rpms" /\ ActionStarted =>
        /\ Cardinality({i \in DOMAIN calls : calls[i] = "AddRPMList"}) <= 1
        /\ (\E i \in DOMAIN calls : calls[i] = "AddRPMList") =>
              /\ calls = <<"runAddRPM", "NewFromConfig", "ReadDir", "AddRPMList">>
              /\ \A i \in DOMAIN stderr : stderr[i].err.msg \notin EarlyFailures
        /\ (\E i \in DOMAIN stderr : stderr[i].err.msg \in EarlyFailures) =>
              /\ Exited /\ exitStatus = 1
              /\ \A i \in DOMAIN calls : calls[i] # "AddRPMList"
        /\ stderr = <<>> =>
              /\ calls[Len(calls)] = "AddRPMList"
              /\ Exited => exitStatus = 0

\* RPMDIR is not set: failf ends the run before the directory is read.
C17_Witness ==
    /\ Exited /\ exitStatus = 1 /\ cmd = "add-rpms"
    /\ calls = <<"runAddRPM", "NewFromConfig">>
    /\ stderr[1].err = Error("RPMDIR not set in configuration")

\* ------------------------------------------------------------------------
\* C18: with a destination configured, when the profile file cannot be
\* created or profiling cannot be started the process ends with status 1
\* inside the pre-run hook: no version or check query, no guard, no action.
SetUpFailed ==
    \E i \in DOMAIN stderr :
        stderr[i].err.msg \in {"couldn't create file for CPU profile: %s",
                               "couldn't start profiling: %s"}

C18_SetUpFailureEndsRun ==
    /\ SetUpFailed =>
          /\ cpuProfile
          /\ Exited /\ exitStatus = 1
          /\ ~Has("version") /\ ~Has("checkAllDeps") /\ stdout = <<>>
          /\ ~GuardRan /\ lookups = <<>>
          /\ ~ActionStarted
          /\ ~Has("StartCPUProfile") /\ ~profiling
    /\ cpuProfile /\ ~Has("StartCPUProfile") /\ pc \notin {"static_init", "main", "prerun"} =>
          SetUpFailed

\* The version query asked for, and not answered.
C18_Witness ==
    /\ SetUpFailed /\ Exited
    /\ cmd = Root /\ version
    /\ stderr[1].err = Error("couldn't start profiling: %s")

====
